---------------------------- MODULE Spec2Model ----------------------------
(***************************************************************************)
(* A model of the ETF screener of src/etf_screener_web.py: the metric      *)
(* calculation (calculate_metrics), the flag conversion, the filter        *)
(* (apply_filters) and the display sort of main.                           *)
(*                                                                         *)
(* Numbers.  Closing prices are positive integers; every derived number    *)
(* (a mean, a percentage) is an exact fraction [n, d] in lowest terms, so  *)
(* equality of two values is equality of records.  NaN of a derived number *)
(* is the fraction with denominator 0; NaN of a raw cell is the integer    *)
(* NaN below.  Floating-point rounding is not modelled.                    *)
(*                                                                         *)
(* Scale.  The universe etf_symbols (30 symbols in the source) is a prefix *)
(* of the source's list of at most NSym symbols; the lookback windows      *)
(* (252, 63, 20, 5) and the moving-average windows (200, 50) are scaled    *)
(* down to a few observations, keeping every window >= 2.                  *)
(*                                                                         *)
(* Two specifications.  Spec applies calculate_metrics to a downloaded     *)
(* frame.  SpecScreen runs lines 145-169 of main (flag conversion,         *)
(* apply_filters, display sort) on a table of the shape line 142 selects,  *)
(* or of the shape apply_filters requires.  The lines of main between the  *)
(* two (135-143) are not modelled: they put the four ratings on the rows   *)
(* of the last four dates and leave date-labelled columns in the frame,    *)
(* on which line 142's col.startswith raises.  SpecScreen therefore starts *)
(* from the table line 143 names, not from a value of calculate_metrics.   *)
(***************************************************************************)
EXTENDS Integers, Sequences, FiniteSets, TLC

\* ------------------------------------------------------------------ bounds
\* Largest number of rows (dates) of the downloaded frame.
MaxLen == 5
\* Closing prices range over 1..MaxPrice.
MaxPrice == 2
\* Largest universe: etf_symbols is the first 1..NSym symbols of the source's list.
NSym == 2

\* ------------------------------------------------------- numbers and NaN
\* NaN in a raw cell (pd.to_numeric(errors='coerce') yields NaN for a gap).
NaN == -1

RECURSIVE GCD(_, _)
GCD(a, b) == IF b = 0 THEN a ELSE GCD(b, a % b)

Abs(x) == IF x < 0 THEN -x ELSE x

\* The missing derived number.
RatNaN == [n |-> 0, d |-> 0]
IsNaN(r) == r.d = 0

\* The fraction a/b (b > 0) in lowest terms.
Rat(a, b) ==
    LET g == GCD(Abs(a), b)
    IN  [n |-> a \div g, d |-> b \div g]

RatAdd(x, y) == Rat(x.n * y.d + y.n * x.d, x.d * y.d)
RatDivInt(x, k) == Rat(x.n, x.d * k)
RatLt(x, y) == x.n * y.d < y.n * x.d
RatLe(x, y) == x.n * y.d <= y.n * x.d

RECURSIVE RatSum(_)
RatSum(s) == IF s = <<>> THEN Rat(0, 1) ELSE RatAdd(Head(s), RatSum(Tail(s)))

\* The arithmetic mean of a non-empty sequence of fractions.
RatMean(s) == RatDivInt(RatSum(s), Len(s))

\* ------------------------------------------------------ program constants
\* etf_symbols (lines 8-19): the model's universe is a prefix of this list.
AllSymbols == <<"XLK", "SOXX", "IGV", "CIBR">>

\* LOOKBACK_PERIODS (line 22), in the dict's insertion order, scaled:
\* 252 -> 5, 63 -> 4, 20 -> 3, 5 -> 2.
Periods == <<"12M", "3M", "1M", "1W">>
LOOKBACK_PERIODS == ("12M" :> 5) @@ ("3M" :> 4) @@ ("1M" :> 3) @@ ("1W" :> 2)

\* rolling(window=200) and rolling(window=50) (lines 60-61), scaled.
MA200Window == 4
MA50Window == 2

VARIABLES
    etf_symbols,    \* the universe: a sequence of symbols (module global)
    data,           \* the frame passed to calculate_metrics: symbol -> closes by row
    close_prices,   \* calculate_metrics' local: the rows (dates) kept by dropna
    MA_200,         \* data["MA_200"]: row -> fraction or RatNaN
    MA_50,          \* data["MA_50"]
    rs_ratings,     \* period -> [index, values]
    ret,            \* what calculate_metrics returned: "pending", "ok", "none"
    etf_ranking,    \* the table of the screening stage: [columns, rows]
    filters,        \* the filter configuration handed to apply_filters
    filtered_data,  \* what apply_filters returned
    displayed,      \* the row order handed to st.dataframe
    pc              \* the position in the run

vars == <<etf_symbols, data, close_prices, MA_200, MA_50, rs_ratings, ret,
          etf_ranking, filters, filtered_data, displayed, pc>>

metricVars == <<etf_symbols, data, close_prices, MA_200, MA_50, rs_ratings, ret>>
screenVars == <<etf_ranking, filters, filtered_data, displayed>>

\* ------------------------------------------------------------- sequences
Range(s) == {s[i] : i \in 1..Len(s)}

\* The sub-sequence s[a..b] (empty when a > b).
Slice(s, a, b) == [i \in 1..(b - a + 1) |-> s[a + i - 1]]

Max(a, b) == IF a > b THEN a ELSE b

\* ====================================================== calculate_metrics
\* Number of rows of the frame (len(data)).
NRows == IF Len(etf_symbols) = 0 THEN 0 ELSE Len(data[etf_symbols[1]])

\* Line 53, close_prices.dropna(): the rows with no NaN in any symbol's
\* close, in order.
DropNa(dat, syms) ==
    LET n == Len(dat[syms[1]])
    IN  SelectSeq([i \in 1..n |-> i],
                  LAMBDA i : \A k \in 1..Len(syms) : dat[syms[k]][i] # NaN)

\* The closes of symbol s on the kept rows.
ClosesOf(dat, kept, s) == [j \in 1..Len(kept) |-> Rat(dat[s][kept[j]], 1)]

\* rolling(window=w, min_periods=1).mean() at position j of series cs: the
\* mean of the trailing min(w, j) values.
RollingMean(cs, w, j) == RatMean(Slice(cs, Max(1, j - w + 1), j))

\* Lines 60-61, data["MA_x"] = <one-column frame>: index-aligned assignment,
\* so a row that dropna removed gets NaN.
MAColumn(dat, kept, s, w) ==
    LET cs == ClosesOf(dat, kept, s)
        n  == Len(dat[s])
    IN  [i \in 1..n |->
            IF \E j \in 1..Len(kept) : kept[j] = i
            THEN RollingMean(cs, w, CHOOSE j \in 1..Len(kept) : kept[j] = i)
            ELSE RatNaN]

\* Line 68 for one symbol: (valid_data / valid_data.iloc[0] - 1) * 100 at
\* position j of the window of the last `days` kept rows.
PctOfBase(cs, days, j) ==
    LET first == Len(cs) - days + 1
        base  == cs[first]
        v     == cs[first + j - 1]
    IN  Rat((v.n - base.n) * 100, base.n)

\* Lines 66-72 for one period.
RsRating(dat, kept, syms, days) ==
    IF Len(kept) >= days
    THEN [index  |-> Slice(kept, Len(kept) - days + 1, Len(kept)),
          values |-> [j \in 1..days |->
                        RatMean([k \in 1..Len(syms) |->
                                   PctOfBase(ClosesOf(dat, kept, syms[k]), days, j)])]]
    ELSE [index  |-> [i \in 1..Len(dat[syms[1]]) |-> i],
          values |-> [i \in 1..Len(dat[syms[1]]) |-> RatNaN]]

NoRatings == [p \in Range(Periods) |-> [index |-> <<>>, values |-> <<>>]]

\* calculate_metrics(data), lines 39-77.
calculate_metrics ==
    /\ pc = "fetched"
    /\ LET kept == DropNa(data, etf_symbols)
       IN  \/ \* lines 41-43: an empty frame
              /\ NRows = 0
              /\ close_prices' = <<>>
              /\ ret' = "none"
              /\ UNCHANGED <<MA_200, MA_50, rs_ratings>>
           \/ \* lines 55-57: nothing left after dropna
              /\ NRows > 0
              /\ kept = <<>>
              /\ close_prices' = kept
              /\ ret' = "none"
              /\ UNCHANGED <<MA_200, MA_50, rs_ratings>>
           \/ \* line 60 raises ValueError ("Cannot set a DataFrame with multiple
              \* columns to the single column MA_200") when close_prices has more
              \* than one column; lines 75-77 turn it into (None, None)
              /\ NRows > 0
              /\ kept # <<>>
              /\ Len(etf_symbols) > 1
              /\ close_prices' = kept
              /\ ret' = "none"
              /\ UNCHANGED <<MA_200, MA_50, rs_ratings>>
           \/ \* lines 60-74
              /\ NRows > 0
              /\ kept # <<>>
              /\ Len(etf_symbols) = 1
              /\ close_prices' = kept
              /\ MA_200' = MAColumn(data, kept, etf_symbols[1], MA200Window)
              /\ MA_50' = MAColumn(data, kept, etf_symbols[1], MA50Window)
              /\ rs_ratings' = [p \in Range(Periods) |->
                                  RsRating(data, kept, etf_symbols, LOOKBACK_PERIODS[p])]
              /\ ret' = "ok"
    /\ pc' = "metrics"
    /\ UNCHANGED <<etf_symbols, data, screenVars>>

NoTable == [columns |-> {}, rows |-> <<>>]

\* The frames get_etf_data can hand over: every symbol of the universe has a
\* Close column of the same length, each cell a price or NaN.
Cells == {NaN} \cup (1..MaxPrice)
Frames(syms) ==
    UNION {[Range(syms) -> [1..n -> Cells]] : n \in 0..MaxLen}

Init ==
    /\ etf_symbols \in {SubSeq(AllSymbols, 1, k) : k \in 1..NSym}
    /\ data \in Frames(etf_symbols)
    /\ close_prices = <<>>
    /\ MA_200 = <<>>
    /\ MA_50 = <<>>
    /\ rs_ratings = NoRatings
    /\ ret = "pending"
    /\ etf_ranking = NoTable
    /\ filters = <<>>
    /\ filtered_data = NoTable
    /\ displayed = <<>>
    /\ pc = "fetched"

Next == calculate_metrics

Spec == Init /\ [][Next]_vars

\* ============================================================== screening
\* Truth values and strings handed over by the sidebar widgets (lines 151-153).
VBool(b) == [t |-> "bool", b |-> b, s |-> ""]
VStr(str) == [t |-> "str", b |-> FALSE, s |-> str]

\* Python's truthiness of a widget value (line 95, `if value:`).
Truthy(v) == IF v.t = "bool" THEN v.b ELSE v.s # ""

\* The columns line 142 selects, and a table that also has the columns
\* apply_filters requires (line 86) and the "EMA Trend" column it filters on.
MainCols == {"MA_200", "MA_50", "12M", "3M", "1M", "1W"}
required_columns == {"Above 200 MA", "Above 50 MA", "12M", "3M", "1M", "1W"}
FullCols == MainCols \cup required_columns \cup {"EMA Trend"}

\* Line 147 for one cell, fillna(False).astype(bool): NaN becomes False, a
\* number becomes (number != 0).  A bool cell is 0 (False) or 1 (True), the
\* value Python compares it as.
FillnaAsBool(v) == IF v = NaN THEN 0 ELSE IF v = 0 THEN 0 ELSE 1

\* Lines 146-147: both moving-average columns converted in place.
ConvertFlagsOf(table) ==
    [table EXCEPT !.rows =
        [i \in 1..Len(table.rows) |->
            [table.rows[i] EXCEPT
                !.cells = [c \in DOMAIN table.rows[i].cells |->
                    IF c \in {"MA_200", "MA_50"}
                    THEN FillnaAsBool(table.rows[i].cells[c])
                    ELSE table.rows[i].cells[c]]]]]

\* A comparison of two numeric cells; NaN compares False (IEEE).
CellGt(a, b) == a # NaN /\ b # NaN /\ a > b
CellLt(a, b) == a # NaN /\ b # NaN /\ a < b

\* ApplyCriterion without the test of line 95: an unchecked box filters too.
ApplyCriterion_IgnoringValue(table, fd, c) ==
    IF c.col = "EMA Trend"
    THEN IF c.op # "==" THEN fd
         ELSE IF c.col \notin table.columns THEN fd
         ELSE SelectSeq(fd, LAMBDA r :
                  c.value.t = "str" /\ r.cells[c.col] = c.value.s)
    ELSE IF c.op \notin {">", "<"} THEN fd
    ELSE IF c.col \notin table.columns THEN fd
    ELSE IF Len(fd) # Len(table.rows) THEN fd
    ELSE IF c.op = ">"
         THEN SelectSeq(fd, LAMBDA r : CellGt(r.cells[c.col], r.cells["12M"]))
         ELSE SelectSeq(fd, LAMBDA r : CellLt(r.cells[c.col], r.cells["12M"]))

\* Lines 95-110: one pass of the loop body for criterion c, on the rows fd
\* filtered so far.  An exception (KeyError for a column the table lacks,
\* ValueError for comparing series whose indexes differ) skips the criterion.
ApplyCriterion(table, fd, c) ==
    IF ~Truthy(c.value) THEN fd
    ELSE IF c.col = "EMA Trend"
    THEN IF c.op # "==" THEN fd
         ELSE IF c.col \notin table.columns THEN fd
         ELSE SelectSeq(fd, LAMBDA r :
                  c.value.t = "str" /\ r.cells[c.col] = c.value.s)
    ELSE IF c.op \notin {">", "<"} THEN fd
    ELSE IF c.col \notin table.columns THEN fd
    ELSE IF Len(fd) # Len(table.rows) THEN fd
    ELSE IF c.op = ">"
         THEN SelectSeq(fd, LAMBDA r : CellGt(r.cells[c.col], r.cells["12M"]))
         ELSE SelectSeq(fd, LAMBDA r : CellLt(r.cells[c.col], r.cells["12M"]))

\* Lines 94-110: the loop over filters.items(), in the dict's order.
RECURSIVE FilterLoop(_, _, _)
FilterLoop(table, fd, flt) ==
    IF flt = <<>> THEN fd
    ELSE FilterLoop(table, ApplyCriterion(table, fd, Head(flt)), Tail(flt))

\* apply_filters(etf_ranking, filters), lines 79-112.
apply_filters(table, flt) ==
    IF table.rows = <<>> \/ table.columns = {} THEN NoTable
    ELSE IF ~(required_columns \subseteq table.columns) THEN table
    ELSE [table EXCEPT !.rows = FilterLoop(table, table.rows, flt)]

\* Line 163, sort_values(by="12M", ascending=False): the rows with a 12M
\* value in descending order, the rows with NaN after them in their original
\* order (na_position='last').  The default kind is quicksort, which is not
\* stable: rows with equal 12M values may come out in any order.
Perms(n) == {f \in [1..n -> 1..n] : \A i, j \in 1..n : f[i] = f[j] => i = j}

SortOrders(rows) ==
    LET n    == Len(rows)
        key(i) == rows[i].cells["12M"]
    IN  {[i \in 1..n |-> rows[f[i]]] : f \in
            {g \in Perms(n) :
                \A i, j \in 1..n : i < j =>
                    \/ key(g[j]) = NaN /\ key(g[i]) # NaN
                    \/ key(g[j]) = NaN /\ key(g[i]) = NaN /\ g[i] < g[j]
                    \/ key(g[j]) # NaN /\ key(g[i]) # NaN /\ key(g[i]) >= key(g[j])}}

\* ------------------------------------------------------- screening inputs
\* Rows of a table and criteria of a configuration.
MaxRows == 2
MaxFilters == 2

\* A row of the table at line 143.  Both moving-average columns hold a mean
\* (positive, prices being positive) on the rows dropna kept and NaN on the
\* rows it dropped (lines 60-61, min_periods=1), so they are missing
\* together; "12M" holds a number or NaN.
Row(idx, ma, m12, ema, cols) ==
    [idx |-> idx,
     cells |-> [c \in cols |->
        CASE c \in {"MA_200", "MA_50"} -> ma
          [] c = "12M" -> m12
          [] c = "EMA Trend" -> ema
          [] c \in {"Above 200 MA", "Above 50 MA"} -> 0
          [] OTHER -> NaN]]

EmaValues(cols) ==
    IF "EMA Trend" \in cols THEN {"EMA > EMA 20", "EMA < EMA 20"} ELSE {""}

RowsOf(idx, cols) ==
    {Row(idx, a, m, e, cols) :
        a \in {NaN, 2}, m \in {NaN, 0, 1}, e \in EmaValues(cols)}

\* The tables of up to MaxRows rows, one row per symbol, in the order of the
\* universe's list.
TablesOver(cols) ==
    {[columns |-> cols, rows |-> rows] :
        rows \in UNION {
            {r \in [1..n -> UNION {RowsOf(AllSymbols[k], cols) : k \in 1..n}] :
                \A i \in 1..n : r[i].idx = AllSymbols[i]}
            : n \in 0..MaxRows}}

Tables == TablesOver(MainCols) \cup TablesOver(FullCols)

\* The criteria of the configurations tried: those main builds (lines
\* 150-154), one on a column no table has, and one with a comparator the
\* loop does not know.
Criteria ==
    {[col |-> "MA_200", op |-> ">", value |-> VBool(TRUE)],
     [col |-> "MA_200", op |-> ">", value |-> VBool(FALSE)],
     [col |-> "MA_50", op |-> ">", value |-> VBool(TRUE)],
     [col |-> "MA_50", op |-> "!=", value |-> VBool(TRUE)],
     [col |-> "EMA Trend", op |-> "==", value |-> VStr("Show All")],
     [col |-> "EMA Trend", op |-> "==", value |-> VStr("EMA > EMA 20")],
     [col |-> "Volume", op |-> ">", value |-> VBool(TRUE)]}

\* A dict of criteria: keys (columns) are distinct, order is insertion order.
FilterConfigs ==
    UNION {{f \in [1..n -> Criteria] :
                \A i, j \in 1..n : i # j => f[i].col # f[j].col}
           : n \in 0..MaxFilters}

\* --------------------------------------------------- main, lines 145-169
\* Lines 145-147.
main_convert_flags ==
    /\ pc = "table"
    /\ etf_ranking' = ConvertFlagsOf(etf_ranking)
    /\ pc' = "flags"
    /\ UNCHANGED <<metricVars, filters, filtered_data, displayed>>

\* Lines 149-157: the sidebar's configuration, then apply_filters.
main_apply_filters ==
    /\ pc = "flags"
    /\ \E flt \in FilterConfigs :
        /\ filters' = flt
        /\ filtered_data' = apply_filters(etf_ranking, flt)
    /\ pc' = "filtered"
    /\ UNCHANGED <<metricVars, etf_ranking, displayed>>

\* Lines 160-171.
main_display ==
    /\ pc = "filtered"
    /\ \/ /\ filtered_data.rows # <<>>
          /\ displayed' \in SortOrders(filtered_data.rows)
       \/ /\ filtered_data.rows = <<>>
          /\ displayed' = <<>>
    /\ pc' = "done"
    /\ UNCHANGED <<metricVars, etf_ranking, filters, filtered_data>>

InitScreen ==
    /\ etf_symbols = <<>>
    /\ data = <<>>
    /\ close_prices = <<>>
    /\ MA_200 = <<>>
    /\ MA_50 = <<>>
    /\ rs_ratings = NoRatings
    /\ ret = "pending"
    /\ etf_ranking \in Tables
    /\ filters = <<>>
    /\ filtered_data = NoTable
    /\ displayed = <<>>
    /\ pc = "table"

NextScreen == main_convert_flags \/ main_apply_filters \/ main_display

SpecScreen == InitScreen /\ [][NextScreen]_vars

\* ---------------------------------------------- claims on calculate_metrics
\* The observations of symbol s: its non-missing closes, in row order.
History(s) == SelectSeq(data[s], LAMBDA c : c # NaN)

\* The value a series reports at the latest point (RatNaN for an empty one).
Latest(series) ==
    IF series.values = <<>> THEN RatNaN ELSE series.values[Len(series.values)]

Computed == pc = "metrics" /\ ret = "ok"

\* C1: for every window of p periods and every instrument with fewer than
\* p+1 observations, the window's performance is missing; in particular a
\* history of exactly p observations yields missing.
C1_MissingBelowPPlusOne ==
    Computed =>
        \A p \in Range(Periods) : \A k \in 1..Len(etf_symbols) :
            Len(History(etf_symbols[k])) < LOOKBACK_PERIODS[p] + 1
                => IsNaN(Latest(rs_ratings[p]))

\* C2: with sufficient history the window's performance is
\* (last - base) / base * 100 where base is the close exactly p observations
\* before the last one, of that single instrument.
C2_BaseIsPObservationsBack ==
    Computed =>
        \A p \in Range(Periods) : \A k \in 1..Len(etf_symbols) :
            LET h == History(etf_symbols[k])
                n == Len(h)
                d == LOOKBACK_PERIODS[p]
            IN  n >= d + 1
                    => Latest(rs_ratings[p]) = Rat((h[n] - h[n - d]) * 100, h[n - d])

\* The moving-average column of window w as the claim C3 describes it: missing
\* on the first w-1 observations, the mean of exactly w trailing closes after.
FullWindowSMA(h, w, j) ==
    IF j < w THEN RatNaN
    ELSE RatMean([i \in 1..w |-> Rat(h[j - w + i], 1)])

\* C3: at every position of the price series the moving average of length L
\* is missing when fewer than L trailing closes exist and is the mean of
\* exactly L trailing closes otherwise.
C3_NoPartialWindow ==
    Computed =>
        LET h == History(etf_symbols[1])
        IN  \A j \in 1..Len(close_prices) :
                /\ MA_200[close_prices[j]] = FullWindowSMA(h, MA200Window, j)
                /\ MA_50[close_prices[j]] = FullWindowSMA(h, MA50Window, j)

\* The performance of one instrument in one window as line 68 computes it
\* before the mean across instruments (RatNaN when the window is not computed).
OwnPerformance(s, p) ==
    LET days == LOOKBACK_PERIODS[p]
    IN  IF Len(close_prices) >= days
        THEN PctOfBase(ClosesOf(data, close_prices, s), days, days)
        ELSE RatNaN

\* rank / n * 99 with the 1-based ascending average rank of s among the
\* instruments with non-missing performance in window p.
PercentileRating(s, p) ==
    LET pop  == {t \in Range(etf_symbols) : ~IsNaN(OwnPerformance(t, p))}
        me   == OwnPerformance(s, p)
        less == Cardinality({t \in pop : RatLt(OwnPerformance(t, p), me)})
        same == Cardinality({t \in pop : OwnPerformance(t, p) = me})
    IN  Rat((2 * less + same + 1) * 99, 2 * Cardinality(pop))

\* C4: the RS rating of every instrument with non-missing performance is
\* (average rank / n) * 99 and lies in [0, 99].
C4_RatingIsPercentileRank ==
    Computed =>
        \A p \in Range(Periods) : \A k \in 1..Len(etf_symbols) :
            ~IsNaN(OwnPerformance(etf_symbols[k], p))
                => /\ Latest(rs_ratings[p]) = PercentileRating(etf_symbols[k], p)
                   /\ RatLe(Rat(0, 1), Latest(rs_ratings[p]))
                   /\ RatLe(Latest(rs_ratings[p]), Rat(99, 1))

\* C10: the series an instrument's metrics are computed from is that
\* instrument's own series of observations: no observation of X is dropped
\* because another instrument has a gap.
C10_OwnSeriesOnly ==
    pc = "metrics" =>
        \A k \in 1..Len(etf_symbols) :
            LET s == etf_symbols[k]
            IN  \A i \in 1..NRows :
                    data[s][i] # NaN => i \in Range(close_prices)

\* ------------------------------------------------ claims on the screening
\* C5: a flag whose moving average is missing stays missing through the
\* conversion of lines 146-147; it is never turned into False.
C5_MissingFlagStaysMissing ==
    [][(pc = "table" /\ pc' = "flags") =>
        \A i \in 1..Len(etf_ranking.rows) :
            \A c \in {"MA_200", "MA_50"} :
                etf_ranking.rows[i].cells[c] = NaN
                    => etf_ranking'.rows[i].cells[c] = NaN]_vars

\* A criterion the loop of apply_filters can evaluate on the table: an
\* existing column with a comparator the loop knows.
WellFormed(table, c) ==
    /\ c.col \in table.columns
    /\ IF c.col = "EMA Trend" THEN c.op = "==" ELSE c.op \in {">", "<"}

\* The test the loop applies to one row for criterion c (lines 99-104).
Passes(r, c) ==
    IF c.col = "EMA Trend" THEN c.value.t = "str" /\ r.cells[c.col] = c.value.s
    ELSE IF c.op = ">" THEN CellGt(r.cells[c.col], r.cells["12M"])
    ELSE CellLt(r.cells[c.col], r.cells["12M"])

Active(flt) == {i \in 1..Len(flt) : Truthy(flt[i].value)}

\* C6: every row apply_filters returns passes every active criterion of the
\* configuration (AND semantics), the second and later ones included.
C6_ReturnedRowsPassEveryCriterion ==
    pc = "filtered" =>
        \A i \in 1..Len(filtered_data.rows) : \A k \in Active(filters) :
            WellFormed(etf_ranking, filters[k])
                => Passes(filtered_data.rows[i], filters[k])

\* The comparators of a ScreeningCriterion.
SupportedComparators == {">", "<", "==", ">=", "<="}

Malformed(table, c) ==
    c.col \notin table.columns \/ c.op \notin SupportedComparators

\* C7: when an active criterion names a column the table lacks or uses an
\* unsupported comparator, filtering fails: no filtered table is returned.
C7_MalformedCriterionFails ==
    (\E k \in Active(filters) : Malformed(etf_ranking, filters[k]))
        => pc \notin {"filtered", "done"}

\* C8: with no active criterion apply_filters returns exactly the rows of
\* its input, in order and with the same values, and leaves the input as
\* it was.
C8_NoActiveCriterionIsIdentity ==
    [][(pc = "flags" /\ pc' = "filtered" /\ Active(filters') = {}) =>
        /\ filtered_data'.rows = etf_ranking.rows
        /\ etf_ranking' = etf_ranking]_vars

\* A configuration of unchecked criteria only was applied to a table that
\* has the required columns and rows that an applied criterion would remove.
C8_Witness ==
    /\ pc = "filtered"
    /\ filters # <<>>
    /\ Active(filters) = {}
    /\ required_columns \subseteq etf_ranking.columns
    /\ Len(etf_ranking.rows) = MaxRows
    /\ filtered_data.rows = etf_ranking.rows
    /\ \E i \in 1..Len(etf_ranking.rows) : \E k \in 1..Len(filters) :
          /\ WellFormed(etf_ranking, filters[k])
          /\ ~Passes(etf_ranking.rows[i], filters[k])

\* Alphabetical order of the symbols.
Alphabetical == <<"CIBR", "IGV", "SOXX", "XLK">>
AlphaPos(sym) == CHOOSE i \in 1..Len(Alphabetical) : Alphabetical[i] = sym

\* C9: the displayed rows are in descending order of "12M", rows with a
\* missing "12M" come last, and rows with equal "12M" are in ascending
\* symbol order.
C9_SortedDescMissingLastTiesBySymbol ==
    pc = "done" =>
        \A i, j \in 1..Len(displayed) : i < j =>
            LET a == displayed[i].cells["12M"]
                b == displayed[j].cells["12M"]
            IN  /\ a = NaN => b = NaN
                /\ (a # NaN /\ b # NaN) => a >= b
                /\ (a # NaN /\ a = b)
                      => AlphaPos(displayed[i].idx) < AlphaPos(displayed[j].idx)

=============================================================================
